---- MODULE Spec2Model ----
(***************************************************************************)
(* mcp-graphql-forge: a configuration directory of YAML tool definitions   *)
(* is registered on an MCP server; every tool call gathers its variables,  *)
(* resolves a credential (token command or pass-through) and posts one     *)
(* GraphQL request.                                                        *)
(*                                                                         *)
(* Text is a sequence of atoms.  An atom is a one-character string or a    *)
(* literal fragment of the program ("Bearer ", "missing required           *)
(* argument: ", ...).  Two packages implement the handler: internal/forge  *)
(* (impl = "forge") and the root package main (impl = "main").             *)
(***************************************************************************)
EXTENDS Integers, Sequences, FiniteSets, TLC

VARIABLES
    impl,        \* which package runs: "forge" (internal/forge) or "main" (main.go)
    configDir,   \* the directory given by --forgeConfig or FORGE_CONFIG, "" when neither is set
    pc,          \* "start", "configured", "registered", "serving"; "exited" when startup
                 \* failed, "stopped" when the transport ended after serving
    settings,    \* forge.yaml on disk: [status, content]
    dir,         \* the tool files present in the configuration directory
    osEnviron,   \* the process environment, a sequence of KEY=value entries
    isDebug,     \* debug logging flag
    httpAddr,    \* "" selects stdio, anything else the HTTP transport
    cfg,         \* the loaded ForgeConfig
    registered,  \* names of the tools added to the MCP server
    warnings,    \* warnings written to stderr during registration
    inflight     \* the handlers running, by request id: request, locals and position

vars == <<impl, configDir, pc, settings, dir, osEnviron, isDebug, httpAddr, cfg, registered,
          warnings, inflight>>

(***************************** bounds ***************************************)
MaxOutLen == 3
MaxEnvLen == 2
MaxInFlight == 2

(***************************** text *****************************************)
\* JSON null / Go nil, as an argument value.
Null == <<"null">>

Whitespace == {" ", "\n"}

Min(S) == CHOOSE x \in S : \A y \in S : x <= y
Max(S) == CHOOSE x \in S : \A y \in S : x >= y

\* bytes.TrimSpace: drop leading and trailing white space, keep the inside.
TrimSpace(s) ==
    LET keep == {i \in 1..Len(s) : s[i] \notin Whitespace}
    IN  IF keep = {} THEN <<>> ELSE SubSeq(s, Min(keep), Max(keep))

\* strings.HasPrefix
HasPrefix(s, prefix) ==
    /\ Len(s) >= Len(prefix)
    /\ SubSeq(s, 1, Len(prefix)) = prefix

\* strings.Contains
Contains(s, sub) ==
    \E i \in 0..(Len(s) - Len(sub)) : SubSeq(s, i + 1, i + Len(sub)) = sub

\* All sequences over S of length at most n.
RECURSIVE SeqsUpTo(_, _)
SeqsUpTo(S, n) ==
    IF n = 0 THEN {<<>>}
    ELSE LET shorter == SeqsUpTo(S, n - 1)
         IN  shorter \cup {Append(s, c) : s \in shorter, c \in S}

\* The orders in which a Go map with key set S can be ranged over.
RECURSIVE Orders(_)
Orders(S) ==
    IF S = {} THEN {<<>>}
    ELSE UNION {{<<k>> \o o : o \in Orders(S \ {k})} : k \in S}


(***************************** configuration ********************************)
Inp(name, type, required) == [name |-> name, type |-> type, required |-> required]

Tool(name, query, inputs) == [name |-> name, query |-> query, inputs |-> inputs]

\* The zero ToolConfig a failed load leaves behind.
NoTool == Tool("", "", <<>>)

ToolFiles == {"a_ping.yaml", "b_broken.yaml", "c_badlast.yaml", "d_user.yaml", "e_badfirst.yaml"}

\* filepath.Glob returns the matches of one directory in sorted order.
GlobOrder == <<"a_ping.yaml", "b_broken.yaml", "c_badlast.yaml", "d_user.yaml",
               "e_badfirst.yaml", "forge.yaml">>

\* What is on disk under each tool file name.
FileContent(f) ==
    CASE f = "a_ping.yaml" ->
           [parses |-> TRUE, tool |-> Tool("ping", "query { ping }", <<>>)]
      [] f = "c_badlast.yaml" ->
           [parses |-> TRUE,
            tool |-> Tool("badlast", "query ($id: ID!) { node }",
                          <<Inp("id", "string", TRUE), Inp("flag", "boolean", FALSE)>>)]
      [] f = "d_user.yaml" ->
           [parses |-> TRUE,
            tool |-> Tool("user", "query ($id: ID!, $n: Int, $org: String!) { user }",
                          <<Inp("id", "string", TRUE), Inp("n", "number", FALSE),
                            Inp("org", "string", TRUE)>>)]
      [] f = "e_badfirst.yaml" ->
           [parses |-> TRUE,
            tool |-> Tool("badfirst", "query ($id: ID) { x }",
                          <<Inp("flag", "int", TRUE), Inp("id", "string", FALSE)>>)]
      [] f = "forge.yaml" ->
           [parses |-> TRUE, tool |-> Tool("forge", "", <<>>)]
      [] OTHER -> [parses |-> FALSE, tool |-> NoTool]

\* LoadToolConfig: read and unmarshal one file; an error leaves no tool.
LoadToolConfig(f) ==
    LET c == FileContent(f)
    IN  IF c.parses THEN [err |-> FALSE, tcfg |-> c.tool]
        ELSE [err |-> TRUE, tcfg |-> NoTool]

\* ForgeConfig
ForgeConfig(url, tokenCommand, env, passthrough) ==
    [URL |-> url, TokenCommand |-> tokenCommand, Env |-> env, EnvPassthrough |-> passthrough]

NoConfig == ForgeConfig("", "", <<>>, FALSE)

\* One environment entry KEY=value.
EnvEntry(key, value) == key \o <<"=">> \o value

(***************************** registration *********************************)
SupportedTypes == {"string", "number"}

\* An input check that stops looking after the first input.
inputWarningsFirstOnly(tcfg, i) ==
    IF i > Len(tcfg.inputs) \/ i > 1 THEN <<>>
    ELSE IF tcfg.inputs[i].type \in SupportedTypes THEN <<>>
    ELSE <<[kind |-> "unsupported type", what |-> tcfg.inputs[i].type, where |-> tcfg.name]>>

\* The inner loop of RegisterTools over one tool's inputs: one warning per
\* input of unsupported type, in declared order.
RECURSIVE inputWarnings(_, _)
inputWarnings(tcfg, i) ==
    IF i > Len(tcfg.inputs) THEN <<>>
    ELSE LET inp == tcfg.inputs[i]
             here == IF inp.type \in SupportedTypes THEN <<>>
                     ELSE <<[kind |-> "unsupported type", what |-> inp.type, where |-> tcfg.name]>>
         IN  here \o inputWarnings(tcfg, i + 1)

\* A loop that gives up at the first file that cannot be loaded.
RECURSIVE registerFromStopAtBroken(_, _, _, _)
registerFromStopAtBroken(files, i, reg, warn) ==
    IF i > Len(files) THEN [registered |-> reg, warnings |-> warn]
    ELSE LET f == files[i]
             loaded == LoadToolConfig(f)
             w == inputWarnings(loaded.tcfg, 1)
         IN  IF f = "forge.yaml" THEN registerFromStopAtBroken(files, i + 1, reg, warn)
             ELSE IF loaded.err
                  THEN [registered |-> reg,
                        warnings |-> Append(warn, [kind |-> "skipping", what |-> f, where |-> f])]
             ELSE IF w # <<>> THEN registerFromStopAtBroken(files, i + 1, reg, warn \o w)
             ELSE registerFromStopAtBroken(files, i + 1, reg \cup {loaded.tcfg}, warn)

\* RegisterTools' loop over the globbed files, from file i on.
RECURSIVE registerFrom(_, _, _, _)
registerFrom(files, i, reg, warn) ==
    IF i > Len(files) THEN [registered |-> reg, warnings |-> warn]
    ELSE LET f == files[i]
             loaded == LoadToolConfig(f)
             w == inputWarnings(loaded.tcfg, 1)
         IN  IF f = "forge.yaml" THEN registerFrom(files, i + 1, reg, warn)
             ELSE IF loaded.err
                  THEN registerFrom(files, i + 1, reg,
                                    Append(warn, [kind |-> "skipping", what |-> f, where |-> f]))
             ELSE IF w # <<>> THEN registerFrom(files, i + 1, reg, warn \o w)
             ELSE registerFrom(files, i + 1, reg \cup {loaded.tcfg}, warn)

\* The listing filepath.Glob(configDir/*.yaml) yields.
Glob(present) == SelectSeq(GlobOrder, LAMBDA f : f \in present)

(***************************** tool call: variables **************************)
\* A gathering loop that never checks the required flag.
RECURSIVE gatherVariablesUnchecked(_, _, _, _)
gatherVariablesUnchecked(inputs, args, i, bound) ==
    IF i > Len(inputs) THEN [vars |-> bound, ok |-> TRUE, missing |-> ""]
    ELSE LET inp == inputs[i]
             val == IF inp.name \in DOMAIN args THEN args[inp.name] ELSE Null
         IN  gatherVariablesUnchecked(inputs, args, i + 1, (inp.name :> val) @@ bound)

\* A gathering loop that binds only the inputs the caller supplied.
RECURSIVE gatherVariablesSupplied(_, _, _, _)
gatherVariablesSupplied(inputs, args, i, bound) ==
    IF i > Len(inputs) THEN [vars |-> bound, ok |-> TRUE, missing |-> ""]
    ELSE LET inp == inputs[i]
             ok == inp.name \in DOMAIN args
         IN  IF ~ok /\ inp.required
             THEN [vars |-> bound, ok |-> FALSE, missing |-> inp.name]
             ELSE gatherVariablesSupplied(inputs, args, i + 1,
                      IF ok THEN (inp.name :> args[inp.name]) @@ bound ELSE bound)

\* Step 1 of the handler, from input i on: bind every declared input, stop at
\* the first required input the arguments lack.
RECURSIVE gatherVariables(_, _, _, _)
gatherVariables(inputs, args, i, bound) ==
    IF i > Len(inputs) THEN [vars |-> bound, ok |-> TRUE, missing |-> ""]
    ELSE LET inp == inputs[i]
             ok == inp.name \in DOMAIN args
             val == IF ok THEN args[inp.name] ELSE Null
         IN  IF ~ok /\ inp.required
             THEN [vars |-> bound, ok |-> FALSE, missing |-> inp.name]
             ELSE gatherVariables(inputs, args, i + 1, (inp.name :> val) @@ bound)

\* mcp.NewToolResultError / NewToolResultText / NewToolResultErrorFromErr
NewToolResultError(text) == [text |-> text, isError |-> TRUE]

NewToolResultText(text) == [text |-> text, isError |-> FALSE]

NewToolResultErrorFromErr(text, err) == [text |-> text \o <<": ">> \o err, isError |-> TRUE]

(***************************** tool call: token ******************************)
\* An overlay that drops every entry starting with the key, "=" or not.
RECURSIVE overlayEnvBarePrefix(_, _, _)
overlayEnvBarePrefix(envList, env, order) ==
    IF order = <<>> THEN envList
    ELSE LET key == Head(order)
             filtered == SelectSeq(envList, LAMBDA e : ~HasPrefix(e, key))
         IN  overlayEnvBarePrefix(Append(filtered, EnvEntry(key, env[key])), env, Tail(order))

\* The environment of the token command: the process environment or nothing,
\* then every cfg.Env key in the order the map is ranged over.
RECURSIVE overlayEnv(_, _, _)
overlayEnv(envList, env, order) ==
    IF order = <<>> THEN envList
    ELSE LET key == Head(order)
             prefix == key \o <<"=">>
             filtered == SelectSeq(envList, LAMBDA e : ~HasPrefix(e, prefix))
         IN  overlayEnv(Append(filtered, EnvEntry(key, env[key])), env, Tail(order))

buildEnv(c, environ, order) ==
    overlayEnv(IF c.EnvPassthrough THEN environ ELSE <<>>, c.Env, order)

\* One diagnostic log entry: text is what is written in the clear; an entry
\* that carries a sha256 digest has hasDigest set and digestOf the digested value.
LogEntry(kind, text) == [kind |-> kind, text |-> text, hasDigest |-> FALSE, digestOf |-> <<>>]

DigestEntry(kind, text, value) ==
    [kind |-> kind, text |-> text, hasDigest |-> TRUE, digestOf |-> value]

\* The texts of ss run together with sep between neighbours.
RECURSIVE Join(_, _)
Join(ss, sep) ==
    IF ss = <<>> THEN <<>>
    ELSE IF Len(ss) = 1 THEN ss[1]
    ELSE ss[1] \o sep \o Join(Tail(ss), sep)

\* fmt's %v of a []string: the entries between brackets, one space apart.
FormatStrings(ss) == <<"[">> \o Join(ss, <<" ">>) \o <<"]">>

\* The log lines written before the token command runs.
commandLog(c, env) ==
    <<LogEntry("token command", <<"Executing token command: ", c.TokenCommand>>)>>
    \o (IF Len(env) > 0
        THEN <<LogEntry("environment", <<"Environment variables: ">> \o FormatStrings(env))>>
        ELSE <<>>)

\* What cmd.Output() yields when no command has run.
NoCmd == [kind |-> "none", code |-> "", stderr |-> <<>>, stdout |-> <<>>]

\* exec.ExitError.Error()
ExitErrorText(code) == <<"exit status ", code>>

\* The text of the error cmd.Output returned.
CmdErrText(cmdOut) ==
    IF cmdOut.kind = "exit" THEN ExitErrorText(cmdOut.code) ELSE <<"exec: not started">>

\* A failure message that leaves the command's standard error out.
tokenErrMsgWithoutStderr(cmdOut) ==
    IF cmdOut.kind = "exit"
    THEN <<"token_command failed", ": ">> \o ExitErrorText(cmdOut.code)
    ELSE <<"token_command failed">>

\* The message built for a failed token command.
tokenErrMsg(cmdOut) ==
    IF cmdOut.kind = "exit"
    THEN LET stderr == TrimSpace(cmdOut.stderr)
         IN  IF stderr # <<>>
             THEN <<"token_command failed", ": ">> \o ExitErrorText(cmdOut.code)
                  \o <<" Stderr: ">> \o stderr
             ELSE <<"token_command failed", ": ">> \o ExitErrorText(cmdOut.code)
    ELSE <<"token_command failed">>

(***************************** GraphQL client ********************************)
\* GraphqlRequest marshalled: "variables" carries omitempty, so an empty map
\* leaves the field out of the payload.
GraphqlRequest(query, variables) ==
    [query |-> query, variables |-> variables, hasVariables |-> DOMAIN variables # {}]

\* URLs http.NewRequest cannot parse.
UnparsableURLs == {"http://[::1"}

\* URLs that parse but that the HTTP client refuses before it connects: the
\* scheme is neither http nor https.
UnsupportedSchemeURLs == {"", "ftp://api.example/graphql"}

\* URLs that parse with scheme http or https and an empty host: the HTTP
\* client refuses them before it connects, after it checked the headers.
NoHostURLs == {"http://", "https:///graphql"}

\* URLs a request can be sent to.
GoodURLs == {"https://api.example/graphql", "http://localhost:8080/query"}

\* The JSON punctuation; a body is a sequence of these and of scalar atoms.
JSONPunctuation == {"{", "}", "[", "]", ":", ","}

\* The atoms that are JSON strings, and those that are JSON scalars.
JSONStrings == {"\"data\"", "\"user\"", "\"id\"", "\"1\"", "\"errors\"", "\"message\"", "\"boom\""}

JSONScalars == JSONStrings \cup {"null", "true", "false", "0", "1"}

\* The JSON scanner of json.Indent, from token i on: the position after the
\* value (the members, the elements) that starts there, 0 when there is none.
RECURSIVE ParseValue(_, _)
RECURSIVE ParseMembers(_, _)
RECURSIVE ParseElements(_, _)
ParseValue(b, i) ==
    IF i > Len(b) THEN 0
    ELSE IF b[i] \in JSONScalars THEN i + 1
    ELSE IF b[i] = "{"
         THEN IF i < Len(b) /\ b[i + 1] = "}" THEN i + 2 ELSE ParseMembers(b, i + 1)
    ELSE IF b[i] = "["
         THEN IF i < Len(b) /\ b[i + 1] = "]" THEN i + 2 ELSE ParseElements(b, i + 1)
    ELSE 0

ParseMembers(b, i) ==
    IF i + 1 > Len(b) \/ b[i] \notin JSONStrings \/ b[i + 1] # ":" THEN 0
    ELSE LET v == ParseValue(b, i + 2)
         IN  IF v = 0 \/ v > Len(b) THEN 0
             ELSE IF b[v] = "," THEN ParseMembers(b, v + 1)
             ELSE IF b[v] = "}" THEN v + 1
             ELSE 0

ParseElements(b, i) ==
    LET v == ParseValue(b, i)
    IN  IF v = 0 \/ v > Len(b) THEN 0
        ELSE IF b[v] = "," THEN ParseElements(b, v + 1)
        ELSE IF b[v] = "]" THEN v + 1
        ELSE 0

\* The bodies json.Indent accepts: one JSON value and nothing else.
ValidJSON(body) == ParseValue(body, 1) = Len(body) + 1

\* A line break followed by the indentation of the given depth.
NewLine(depth) == <<"\n">> \o [k \in 1..depth |-> "  "]

\* json.Indent(dst, body, "", "  ") from token i on at the given depth: a line
\* break after every opening bracket and every comma and before every closing
\* bracket, a space after every colon, empty objects and arrays left as they are.
RECURSIVE IndentFrom(_, _, _)
IndentFrom(b, i, depth) ==
    IF i > Len(b) THEN <<>>
    ELSE LET a == b[i]
             empty == /\ i < Len(b)
                      /\ \/ (a = "{" /\ b[i + 1] = "}")
                         \/ (a = "[" /\ b[i + 1] = "]")
         IN  IF a \in {"{", "["}
             THEN IF empty THEN <<a, b[i + 1]>> \o IndentFrom(b, i + 2, depth)
                  ELSE <<a>> \o NewLine(depth + 1) \o IndentFrom(b, i + 1, depth + 1)
             ELSE IF a \in {"}", "]"}
             THEN NewLine(depth - 1) \o <<a>> \o IndentFrom(b, i + 1, depth - 1)
             ELSE IF a = "," THEN <<",">> \o NewLine(depth) \o IndentFrom(b, i + 1, depth)
             ELSE IF a = ":" THEN <<":", " ">> \o IndentFrom(b, i + 1, depth)
             ELSE <<a>> \o IndentFrom(b, i + 1, depth)

Indent(body) == IndentFrom(body, 1, 0)

\* json.Marshal of one variable value: null, or a quoted string.
MarshalValue(v) == IF v = Null THEN <<"null">> ELSE <<"\"">> \o v \o <<"\"">>

\* json.Marshal writes the keys of a map in sorted order.
KeyOrder == <<"flag", "id", "n", "org", "zz">>

\* json.Marshal(payload): the query, and the variables unless the map is empty.
Marshal(payload) ==
    LET keys == SelectSeq(KeyOrder, LAMBDA k : k \in DOMAIN payload.variables)
        member(k) == <<"\"", k, "\"", ":">> \o MarshalValue(payload.variables[k])
        members == Join([j \in 1..Len(keys) |-> member(keys[j])], <<",">>)
    IN  <<"{", "\"query\"", ":", "\"", payload.query, "\"">>
        \o (IF payload.hasVariables
            THEN <<",", "\"variables\"", ":", "{">> \o members \o <<"}">>
            ELSE <<>>)
        \o <<"}">>

\* The number of bytes of an atom.
AtomLen(a) ==
    CASE a = "query { ping }" -> 14
      [] a = "query ($id: ID!) { node }" -> 25
      [] a = "query ($id: ID!, $n: Int, $org: String!) { user }" -> 49
      [] a = "query ($id: ID) { x }" -> 21
      [] a = "" -> 0
      [] a = "\"query\"" -> 7
      [] a = "\"variables\"" -> 11
      [] a = "null" -> 4
      [] a = "flag" -> 4
      [] a = "id" -> 2
      [] a = "org" -> 3
      [] a = "zz" -> 2
      [] OTHER -> 1

RECURSIVE TextLen(_)
TextLen(t) == IF t = <<>> THEN 0 ELSE AtomLen(Head(t)) + TextLen(Tail(t))

\* url.Parse: the host and the request path of a URL.
URLHost(url) ==
    IF url = "https://api.example/graphql" THEN "api.example"
    ELSE IF url = "http://localhost:8080/query" THEN "localhost:8080"
    ELSE url

URLPath(url) ==
    IF url = "https://api.example/graphql" THEN "/graphql"
    ELSE IF url = "http://localhost:8080/query" THEN "/query"
    ELSE "/"

\* httputil.DumpRequestOut(req, true): the request as it goes on the wire, the
\* request line, the headers and the whole body.
\* A header value as net/http writes it: leading and trailing white space is
\* not written, so "Bearer " with nothing after it goes out as "Bearer".
TrimString(v) ==
    LET t == TrimSpace(v)
    IN  IF t = <<>> THEN <<>>
        ELSE IF t[Len(t)] = "Bearer " THEN SubSeq(t, 1, Len(t) - 1) \o <<"Bearer">>
        ELSE t

DumpRequestOut(req) ==
    <<"POST ", URLPath(req.url), " HTTP/1.1\r\n",
      "Host: ", URLHost(req.url), "\r\n",
      "User-Agent: Go-http-client/1.1\r\n",
      "Content-Length: ", ToString(TextLen(Marshal(req.body))), "\r\n">>
    \o (IF req.hasAuth THEN <<"Authorization: ">> \o TrimString(req.auth) \o <<"\r\n">> ELSE <<>>)
    \o <<"Content-Type: application/json\r\n", "Accept-Encoding: gzip\r\n", "\r\n">>
    \o Marshal(req.body)

requestLog(req) == <<LogEntry("request", DumpRequestOut(req))>>

responseLog(resp) ==
    <<LogEntry("status", <<"Status Code: ", resp.status>>),
      IF ValidJSON(resp.body)
      THEN LogEntry("body", <<"Body:\n">> \o Indent(resp.body))
      ELSE LogEntry("body", <<"Body (raw): ">> \o resp.body)>>

\* The characters net/http refuses in a header value.
ControlChars == {"\n"}

\* net/http sends a request only if no header value holds a control character.
ValidHeaderFieldValue(v) == \A i \in 1..Len(v) : v[i] \notin ControlChars

\* A client that inspects the status code and fails on anything but 200.
postGraphQLStatusChecked(url, query, variables, hasAuth, auth, dbg, httpOut) ==
    LET req == [url |-> url, body |-> GraphqlRequest(query, variables), hasAuth |-> hasAuth,
                auth |-> IF hasAuth THEN auth ELSE <<>>]
        dump == IF dbg THEN requestLog(req) ELSE <<>>
    IN  IF url \in UnparsableURLs
        THEN [err |-> <<"create request: ", "parse error">>, failed |-> TRUE, res |-> <<>>,
              requests |-> <<>>, log |-> <<>>, usedHttp |-> FALSE]
        ELSE IF url \in UnsupportedSchemeURLs
        THEN [err |-> <<"execute request: ", "unsupported protocol scheme">>, failed |-> TRUE,
              res |-> <<>>,
              requests |-> <<>>,
              log |-> IF dbg
                      THEN <<LogEntry("request", <<"dump error: ", "unsupported protocol scheme">>)>>
                      ELSE <<>>,
              usedHttp |-> FALSE]
        ELSE IF ~ValidHeaderFieldValue(req.auth)
        THEN [err |-> <<"execute request: ", "invalid header field value">>, failed |-> TRUE,
              res |-> <<>>,
              requests |-> <<>>,
              log |-> IF dbg
                      THEN <<LogEntry("request", <<"dump error: ", "invalid header field value">>)>>
                      ELSE <<>>,
              usedHttp |-> FALSE]
        ELSE IF url \in NoHostURLs
        THEN [err |-> <<"execute request: ", "no Host in request URL">>, failed |-> TRUE,
              res |-> <<>>,
              requests |-> <<>>,
              log |-> IF dbg
                      THEN <<LogEntry("request", <<"dump error: ", "no Host in request URL">>)>>
                      ELSE <<>>,
              usedHttp |-> FALSE]
        ELSE IF httpOut.kind = "neterr"
        THEN [err |-> <<"execute request: ", "connection refused">>, failed |-> TRUE, res |-> <<>>,
              requests |-> <<req>>, log |-> dump, usedHttp |-> TRUE]
        ELSE IF httpOut.kind = "redirecterr"
        THEN [err |-> <<"execute request: ", "stopped after 10 redirects">>, failed |-> TRUE,
              res |-> <<>>,
              requests |-> <<req>>, log |-> dump, usedHttp |-> TRUE]
        ELSE IF httpOut.kind = "readerr"
        THEN [err |-> <<"read response: ", "unexpected EOF">>, failed |-> TRUE, res |-> <<>>,
              requests |-> <<req>>, log |-> dump, usedHttp |-> TRUE]
        ELSE IF httpOut.status # "200"
        THEN [err |-> <<"unexpected status: ", httpOut.status>>, failed |-> TRUE, res |-> <<>>,
              requests |-> <<req>>,
              log |-> dump \o (IF dbg THEN responseLog(httpOut) ELSE <<>>),
              usedHttp |-> TRUE]
        ELSE [err |-> <<>>, failed |-> FALSE, res |-> httpOut.body,
              requests |-> <<req>>,
              log |-> dump \o (IF dbg THEN responseLog(httpOut) ELSE <<>>),
              usedHttp |-> TRUE]

\* What both clients do once the Authorization value is decided.
postGraphQL(url, query, variables, hasAuth, auth, dbg, httpOut) ==
    LET req == [url |-> url, body |-> GraphqlRequest(query, variables), hasAuth |-> hasAuth,
                auth |-> IF hasAuth THEN auth ELSE <<>>]
        dump == IF dbg THEN requestLog(req) ELSE <<>>
    IN  IF url \in UnparsableURLs
        THEN [err |-> <<"create request: ", "parse error">>, failed |-> TRUE, res |-> <<>>,
              requests |-> <<>>, log |-> <<>>, usedHttp |-> FALSE]
        ELSE IF url \in UnsupportedSchemeURLs
        THEN [err |-> <<"execute request: ", "unsupported protocol scheme">>, failed |-> TRUE,
              res |-> <<>>,
              requests |-> <<>>,
              log |-> IF dbg
                      THEN <<LogEntry("request", <<"dump error: ", "unsupported protocol scheme">>)>>
                      ELSE <<>>,
              usedHttp |-> FALSE]
        ELSE IF ~ValidHeaderFieldValue(req.auth)
        THEN [err |-> <<"execute request: ", "invalid header field value">>, failed |-> TRUE,
              res |-> <<>>,
              requests |-> <<>>,
              log |-> IF dbg
                      THEN <<LogEntry("request", <<"dump error: ", "invalid header field value">>)>>
                      ELSE <<>>,
              usedHttp |-> FALSE]
        ELSE IF url \in NoHostURLs
        THEN [err |-> <<"execute request: ", "no Host in request URL">>, failed |-> TRUE,
              res |-> <<>>,
              requests |-> <<>>,
              log |-> IF dbg
                      THEN <<LogEntry("request", <<"dump error: ", "no Host in request URL">>)>>
                      ELSE <<>>,
              usedHttp |-> FALSE]
        ELSE IF httpOut.kind = "neterr"
        THEN [err |-> <<"execute request: ", "connection refused">>, failed |-> TRUE, res |-> <<>>,
              requests |-> <<req>>, log |-> dump, usedHttp |-> TRUE]
        ELSE IF httpOut.kind = "redirecterr"
        THEN [err |-> <<"execute request: ", "stopped after 10 redirects">>, failed |-> TRUE,
              res |-> <<>>,
              requests |-> <<req>>, log |-> dump, usedHttp |-> TRUE]
        ELSE IF httpOut.kind = "readerr"
        THEN [err |-> <<"read response: ", "unexpected EOF">>, failed |-> TRUE, res |-> <<>>,
              requests |-> <<req>>, log |-> dump, usedHttp |-> TRUE]
        ELSE [err |-> <<>>, failed |-> FALSE, res |-> httpOut.body,
              requests |-> <<req>>,
              log |-> dump \o (IF dbg THEN responseLog(httpOut) ELSE <<>>),
              usedHttp |-> TRUE]

\* A client that sets the Authorization header whether or not there is a token.
ExecuteGraphQLAlwaysAuth(url, query, variables, token, dbg, httpOut) ==
    postGraphQL(url, query, variables, TRUE, token, dbg, httpOut)

\* forge.ExecuteGraphQL: the Authorization header is the token verbatim, and
\* is set only when the token is not empty.
ExecuteGraphQL(url, query, variables, token, dbg, httpOut) ==
    postGraphQL(url, query, variables, token # <<>>, token, dbg, httpOut)

\* main.executeGraphQL: the client itself prefixes "Bearer ".
executeGraphQL(url, query, variables, token, dbg, httpOut) ==
    postGraphQL(url, query, variables, token # <<>>, <<"Bearer ">> \o token, dbg, httpOut)

(***************************** handlers **************************************)
\* A handler that hands an error result back together with a handler error.
OutcomeHandlerError(result, token, cmdRuns, requests, log, usedCmd, usedHttp) ==
    [requests |-> requests, log |-> log, usedHttp |-> usedHttp,
     token |-> token, result |-> result, cmdRuns |-> cmdRuns, usedCmd |-> usedCmd,
     herr |-> IF result.isError THEN "error" ELSE "nil"]

\* What one handler invocation returned and did.
Outcome(result, token, cmdRuns, requests, log, usedCmd, usedHttp) ==
    [requests |-> requests, log |-> log, usedHttp |-> usedHttp, token |-> token,
     result |-> result, cmdRuns |-> cmdRuns, usedCmd |-> usedCmd, herr |-> "nil"]

\* context.Background(): no credential attached.
Background == [hasAuth |-> FALSE, auth |-> <<>>]

\* serveHTTP's context function: a non-empty Authorization header is attached
\* to the request's context under CtxAuthKey.
HTTPContextFunc(hdr) ==
    IF hdr # <<>> THEN [hasAuth |-> TRUE, auth |-> hdr] ELSE Background

\* ctx.Value(CtxAuthKey{}).(string): the empty string when nothing is attached.
CtxAuthValue(ctx) == IF ctx.hasAuth THEN ctx.auth ELSE <<>>

\* A last step that reports a body carrying a GraphQL errors array as a failure.
respondClassified(token, cmdRuns, log, usedCmd, gq) ==
    Outcome(IF gq.failed \/ Contains(gq.res, <<"\"errors\"">>)
            THEN NewToolResultErrorFromErr(<<"GraphQL execution failed">>, gq.err)
            ELSE NewToolResultText(gq.res),
            token, cmdRuns, gq.requests, log \o gq.log, usedCmd, gq.usedHttp)

\* Steps 3 and 4 of both handlers, given the client's answer.
respond(token, cmdRuns, log, usedCmd, gq) ==
    Outcome(IF gq.failed
            THEN NewToolResultErrorFromErr(<<"GraphQL execution failed">>, gq.err)
            ELSE NewToolResultText(gq.res),
            token, cmdRuns, gq.requests, log \o gq.log, usedCmd, gq.usedHttp)

\* forge.makeHandler: the handler of internal/forge.
makeHandler(c, tcfg, dbg, args, ctx, environ, order, cmdOut, httpOut) ==
    LET g == gatherVariables(tcfg.inputs, args, 1, <<>>)
        env == buildEnv(c, environ, order)
        run == <<[env |-> env, command |-> c.TokenCommand]>>
        log1 == IF dbg THEN commandLog(c, env) ELSE <<>>
        cmdToken == <<"Bearer ">> \o TrimSpace(cmdOut.stdout)
        ctxToken == CtxAuthValue(ctx)
    IN  IF ~g.ok
        THEN Outcome(NewToolResultError(<<"missing required argument: ", g.missing>>),
                     <<>>, <<>>, <<>>, <<>>, FALSE, FALSE)
        ELSE IF c.TokenCommand # ""
        THEN IF cmdOut.kind # "ok"
             THEN Outcome(NewToolResultErrorFromErr(tokenErrMsg(cmdOut), CmdErrText(cmdOut)),
                          <<>>, run, <<>>, log1, TRUE, FALSE)
             ELSE respond(cmdToken, run,
                          log1 \o (IF dbg
                                   THEN <<DigestEntry("token", <<"Obtained token (sha256): ">>, cmdToken)>>
                                   ELSE <<>>),
                          TRUE,
                          ExecuteGraphQL(c.URL, tcfg.query, g.vars, cmdToken, dbg, httpOut))
        ELSE respond(ctxToken, <<>>,
                     IF dbg
                     THEN <<DigestEntry("token", <<"Pass through token (sha256): ">>, ctxToken)>>
                     ELSE <<>>,
                     FALSE,
                     ExecuteGraphQL(c.URL, tcfg.query, g.vars, ctxToken, dbg, httpOut))

\* main.makeHandler: the handler of the root package.  It has no pass-through
\* path, keeps the bare token and logs it in the clear.
mainMakeHandler(c, tcfg, dbg, args, ctx, environ, order, cmdOut, httpOut) ==
    LET g == gatherVariables(tcfg.inputs, args, 1, <<>>)
        env == buildEnv(c, environ, order)
        run == <<[env |-> env, command |-> c.TokenCommand]>>
        log1 == IF dbg THEN commandLog(c, env) ELSE <<>>
        cmdToken == TrimSpace(cmdOut.stdout)
    IN  IF ~g.ok
        THEN Outcome(NewToolResultError(<<"missing required argument: ", g.missing>>),
                     <<>>, <<>>, <<>>, <<>>, FALSE, FALSE)
        ELSE IF c.TokenCommand # ""
        THEN IF cmdOut.kind # "ok"
             THEN Outcome(NewToolResultErrorFromErr(tokenErrMsg(cmdOut), CmdErrText(cmdOut)),
                          <<>>, run, <<>>, log1, TRUE, FALSE)
             ELSE respond(cmdToken, run,
                          log1 \o (IF dbg
                                   THEN <<LogEntry("token", <<"Obtained token: ">> \o cmdToken)>>
                                   ELSE <<>>),
                          TRUE,
                          executeGraphQL(c.URL, tcfg.query, g.vars, cmdToken, dbg, httpOut))
        ELSE respond(<<>>, <<>>, <<>>, FALSE,
                     executeGraphQL(c.URL, tcfg.query, g.vars, <<>>, dbg, httpOut))

(***************************** state machine *********************************)
NoHttp == [kind |-> "none", body |-> <<>>, status |-> ""]

NoCall ==
    [tool |-> NoTool, args |-> <<>>, requests |-> <<>>, log |-> <<>>, token |-> <<>>,
     result |-> NewToolResultText(<<>>), cmdRuns |-> <<>>,
     herr |-> "nil", hdr |-> <<>>, ctx |-> Background,
     called |-> FALSE, cmd |-> NoCmd, http |-> NoHttp]

\* The directories the server can be pointed at: a directory, a directory whose
\* name is a malformed glob pattern, and none at all.
ConfigDirs == {"conf", "conf[", ""}

\* The start of LoadAppConfig and of main: the directory comes from the flag
\* or FORGE_CONFIG; with neither set forge refuses to start and main uses ".".
resolveConfigDir(im, given) ==
    IF given # "" THEN [ok |-> TRUE, path |-> given]
    ELSE IF im = "main" THEN [ok |-> TRUE, path |-> "."]
    ELSE [ok |-> FALSE, path |-> ""]

\* filepath.Glob fails on a malformed pattern and on nothing else.
GlobFails(path) == path \in {"conf["}

\* The states before main/LoadAppConfig has run.
InitWith(impls, dirs, cfgs, environs, debugs, addrs) ==
    /\ impl \in impls
    /\ configDir \in ConfigDirs
    /\ pc = "start"
    /\ settings \in [status : {"ok"}, content : cfgs]
                    \cup [status : {"missing", "malformed"}, content : {NoConfig}]
    /\ dir \in dirs
    /\ osEnviron \in environs
    /\ isDebug \in debugs
    /\ httpAddr \in addrs
    /\ cfg = NoConfig
    /\ registered = {}
    /\ warnings = <<>>
    /\ inflight = <<>>

\* A start that carries on with empty settings when forge.yaml cannot be loaded.
LoadForgeConfigLenient ==
    /\ pc = "start"
    /\ cfg' = IF settings.status = "ok" THEN settings.content ELSE NoConfig
    /\ pc' = "configured"
    /\ UNCHANGED <<impl, configDir, settings, dir, osEnviron, isDebug, httpAddr, registered, warnings,
                   inflight>>

\* LoadForgeConfig: forge.yaml read and unmarshalled, or startup ends ("exited":
\* main called os.Exit(1), or LoadAppConfig / CreateMCPServer returned an error
\* and there is no server to start).
LoadForgeConfig ==
    /\ pc = "start"
    /\ IF resolveConfigDir(impl, configDir).ok /\ settings.status = "ok"
       THEN cfg' = settings.content /\ pc' = "configured"
       ELSE cfg' = cfg /\ pc' = "exited"
    /\ UNCHANGED <<impl, configDir, settings, dir, osEnviron, isDebug, httpAddr, registered, warnings,
                   inflight>>

\* RegisterTools: every *.yaml of the directory, in glob order; a failed
\* listing ends startup before any file is looked at.
RegisterTools ==
    /\ pc = "configured"
    /\ IF GlobFails(resolveConfigDir(impl, configDir).path)
       THEN /\ registered' = registered
            /\ warnings' = warnings
            /\ pc' = "exited"
       ELSE LET r == registerFrom(Glob(dir \cup {"forge.yaml"}), 1, {}, <<>>)
            IN  /\ registered' = r.registered
                /\ warnings' = r.warnings
                /\ pc' = "registered"
    /\ UNCHANGED <<impl, configDir, settings, dir, osEnviron, isDebug, httpAddr, cfg, inflight>>

\* Serve: the transport starts and tools can be called from now on, or it
\* fails to start (address in use, invalid port) and Serve returns its error.
Serve ==
    /\ pc = "registered"
    /\ \E started \in BOOLEAN : pc' = IF started THEN "serving" ELSE "exited"
    /\ UNCHANGED <<impl, configDir, settings, dir, osEnviron, isDebug, httpAddr, cfg, registered,
                   warnings, inflight>>

\* The transport ends (standard input closed, read error, server stopped):
\* Serve returns, main exits, and the handlers in flight end with the process.
ServeEnds ==
    /\ pc = "serving"
    /\ pc' = "stopped"
    /\ UNCHANGED <<impl, configDir, settings, dir, osEnviron, isDebug, httpAddr, cfg, registered,
                   warnings, inflight>>

(***************************** tool calls ************************************)
\* The server runs one handler per inbound request, and under the HTTP
\* transport several at a time.  A handler waits three times: for the token
\* command (cmd.Output), for the response (Do) and for its body (ReadAll).
\* A handler in flight is a record of its request, its context, its local
\* variables (vars, token) and its position in the handler.
NewCall(tcfg, args, hdr, ctx) ==
    [vars |-> <<>>, tool |-> tcfg, args |-> args, requests |-> <<>>, log |-> <<>>,
     token |-> <<>>, result |-> NewToolResultText(<<>>), cmdRuns |-> <<>>, herr |-> "nil",
     hdr |-> hdr, ctx |-> ctx,
     cmd |-> NoCmd, http |-> NoHttp, step |-> "gather"]

\* Step 1 of the handler on its own record.
gatherStep(call) ==
    LET g == gatherVariables(call.tool.inputs, call.args, 1, <<>>)
    IN  IF ~g.ok
        THEN [call EXCEPT !.step = "done",
                          !.result = NewToolResultError(<<"missing required argument: ", g.missing>>)]
        ELSE [call EXCEPT !.step = "token", !.vars = g.vars]

\* A pass-through that reads the credential from one place shared by all
\* handlers, which holds that of the highest-numbered request in flight.
passThroughTokenShared(calls, id) == CtxAuthValue(calls[Max(DOMAIN calls)].ctx)

\* The pass-through token of handler id: the value under CtxAuthKey in the
\* context it was called with.
passThroughToken(calls, id) == CtxAuthValue(calls[id].ctx)

\* A token step that forwards the credential of its context whenever there is
\* one, and runs the token command only when there is none.
tokenStartCallPreferContext(im, c, dbg, calls, id, environ, order) ==
    LET call == calls[id]
    IN  IF c.TokenCommand # "" /\ ~call.ctx.hasAuth
        THEN [call EXCEPT !.step = "cmdwait",
                          !.cmdRuns = <<[env |-> buildEnv(c, environ, order),
                                         command |-> c.TokenCommand]>>,
                          !.log = IF dbg THEN commandLog(c, buildEnv(c, environ, order)) ELSE <<>>]
        ELSE [call EXCEPT !.step = "post", !.token = CtxAuthValue(call.ctx)]

\* Step 2 of the handler up to cmd.Output(): with a token command the
\* environment is built and the debug lines are written, and the handler waits
\* for the command; without one the token is the credential of its context.
tokenStartCall(im, c, dbg, calls, id, environ, order) ==
    LET call == calls[id]
        env == buildEnv(c, environ, order)
        ctxToken == IF im = "forge" THEN passThroughToken(calls, id) ELSE <<>>
    IN  IF c.TokenCommand # ""
        THEN [call EXCEPT !.step = "cmdwait",
                          !.cmdRuns = <<[env |-> env, command |-> c.TokenCommand]>>,
                          !.log = IF dbg THEN commandLog(c, env) ELSE <<>>]
        ELSE [call EXCEPT !.step = "post", !.token = ctxToken,
                          !.log = IF dbg /\ im = "forge"
                                  THEN <<DigestEntry("token", <<"Pass through token (sha256): ">>, ctxToken)>>
                                  ELSE <<>>]

\* A token step whose overlay filters the process environment itself instead
\* of a copy of it.
tokenStartInPlace(im, c, dbg, calls, id, environ, order) ==
    [environ |-> IF c.TokenCommand # "" /\ c.EnvPassthrough
                 THEN buildEnv(c, environ, order) ELSE environ,
     call |-> tokenStartCall(im, c, dbg, calls, id, environ, order)]

\* The start of step 2 with its effect on the process: os.Environ() hands the
\* handler a copy, so the process environment is what it was.
tokenStart(im, c, dbg, calls, id, environ, order) ==
    [environ |-> environ,
     call |-> tokenStartCall(im, c, dbg, calls, id, environ, order)]

\* Step 2 of the handler after cmd.Output() returned.
tokenDone(im, dbg, call, cmdOut) ==
    LET cmdToken == IF im = "forge" THEN <<"Bearer ">> \o TrimSpace(cmdOut.stdout)
                    ELSE TrimSpace(cmdOut.stdout)
    IN  IF cmdOut.kind # "ok"
        THEN [call EXCEPT !.step = "done", !.cmd = cmdOut,
                          !.result = NewToolResultErrorFromErr(tokenErrMsg(cmdOut),
                                                               CmdErrText(cmdOut))]
        ELSE [call EXCEPT !.step = "post", !.cmd = cmdOut, !.token = cmdToken,
                          !.log = @ \o
                              (IF ~dbg THEN <<>>
                               ELSE IF im = "forge"
                               THEN <<DigestEntry("token", <<"Obtained token (sha256): ">>, cmdToken)>>
                               ELSE <<LogEntry("token", <<"Obtained token: ">> \o cmdToken)>>)]

\* The client of the package that runs.
client(im, c, dbg, call, httpOut) ==
    IF im = "forge"
    THEN ExecuteGraphQL(c.URL, call.tool.query, call.vars, call.token, dbg, httpOut)
    ELSE executeGraphQL(c.URL, call.tool.query, call.vars, call.token, dbg, httpOut)

\* An exchange that fails in Do on the network, one that fails in Do because
\* the redirects the endpoint answered with cannot be followed to an end, and
\* one that fails in ReadAll.
DoFailed == [kind |-> "neterr", body |-> <<>>, status |-> ""]

DoRedirectFailed == [kind |-> "redirecterr", body |-> <<>>, status |-> ""]

ReadFailed == [kind |-> "readerr", body |-> <<>>, status |-> ""]

\* Steps 3 and 4 of the handler once the exchange is over, or was never begun.
postDone(im, c, dbg, call, httpOut) ==
    LET gq == client(im, c, dbg, call, httpOut)
        sent == Len(client(im, c, dbg, call, DoFailed).log)
        o == respond(call.token, call.cmdRuns, <<>>, call.cmdRuns # <<>>, gq)
    IN  [call EXCEPT !.step = "done", !.result = o.result, !.herr = o.herr,
                     !.requests = o.requests,
                     !.log = IF call.step = "post" THEN @ \o gq.log
                             ELSE @ \o SubSeq(gq.log, sent + 1, Len(gq.log)),
                     !.http = IF gq.usedHttp THEN httpOut ELSE NoHttp]

\* Step 3 of the handler up to http.DefaultClient.Do: the request is built and
\* dumped to the log and the handler waits for the response; a URL that cannot
\* be used ends the step at once.
postSend(im, c, dbg, call) ==
    LET gq == client(im, c, dbg, call, DoFailed)
    IN  IF ~gq.usedHttp THEN postDone(im, c, dbg, call, NoHttp)
        ELSE [call EXCEPT !.step = "dowait", !.requests = gq.requests, !.log = @ \o gq.log]

\* Do returned: with an error, or with the status line and headers of a
\* response whose body is still to be read.
postDo(im, c, dbg, call, doOut) ==
    IF doOut.kind = "neterr" THEN postDone(im, c, dbg, call, DoFailed)
    ELSE IF doOut.kind = "redirecterr" THEN postDone(im, c, dbg, call, DoRedirectFailed)
    ELSE [call EXCEPT !.step = "readwait",
                      !.http = [kind |-> "headers", body |-> <<>>, status |-> doOut.status]]

\* io.ReadAll returned: with an error, or with the body.
postRead(im, c, dbg, call, readOut) ==
    IF readOut.kind = "readerr" THEN postDone(im, c, dbg, call, ReadFailed)
    ELSE postDone(im, c, dbg, call,
                  [kind |-> "response", body |-> readOut.body, status |-> call.http.status])

\* The transport accepts a request and starts its handler.  Under stdio one
\* request is handled at a time and there is no Authorization header.
Accept(id, tcfg, args, hdr) ==
    /\ pc = "serving"
    /\ id \in 1..MaxInFlight
    /\ id \notin DOMAIN inflight
    /\ tcfg \in registered
    /\ httpAddr = "" => (hdr = <<>> /\ inflight = <<>>)
    /\ LET ctx == IF impl = "forge" /\ httpAddr # "" THEN HTTPContextFunc(hdr) ELSE Background
       IN  inflight' = (id :> NewCall(tcfg, args, hdr, ctx)) @@ inflight
    /\ UNCHANGED <<impl, configDir, pc, settings, dir, osEnviron, isDebug, httpAddr, cfg, registered,
                   warnings>>

\* The handler of request id is at the given step while the process runs.
AtStep(id, step) ==
    /\ pc = "serving"
    /\ id \in DOMAIN inflight
    /\ inflight[id].step = step

\* Handler id gathers its variables.
GatherStep(id) ==
    /\ AtStep(id, "gather")
    /\ inflight' = [inflight EXCEPT ![id] = gatherStep(inflight[id])]
    /\ UNCHANGED <<impl, configDir, pc, settings, dir, osEnviron, isDebug, httpAddr, cfg, registered,
                   warnings>>

\* Handler id starts its token command, or takes the token of its context.
TokenStart(id, order) ==
    /\ AtStep(id, "token")
    /\ order \in Orders(DOMAIN cfg.Env)
    /\ LET r == tokenStart(impl, cfg, isDebug, inflight, id, osEnviron, order)
       IN  /\ inflight' = [inflight EXCEPT ![id] = r.call]
           /\ osEnviron' = r.environ
    /\ UNCHANGED <<impl, configDir, pc, settings, dir, isDebug, httpAddr, cfg, registered,
                   warnings>>

\* The token command of handler id ended.
TokenDone(id, cmdOut) ==
    /\ AtStep(id, "cmdwait")
    /\ cmdOut.kind # "none"
    /\ inflight' = [inflight EXCEPT ![id] = tokenDone(impl, isDebug, inflight[id], cmdOut)]
    /\ UNCHANGED <<impl, configDir, pc, settings, dir, osEnviron, isDebug, httpAddr, cfg, registered,
                   warnings>>

\* Handler id builds its request and sends it.
PostSend(id) ==
    /\ AtStep(id, "post")
    /\ inflight' = [inflight EXCEPT ![id] = postSend(impl, cfg, isDebug, inflight[id])]
    /\ UNCHANGED <<impl, configDir, pc, settings, dir, osEnviron, isDebug, httpAddr, cfg, registered,
                   warnings>>

\* The response of handler id arrived, or the exchange failed.
PostDo(id, doOut) ==
    /\ AtStep(id, "dowait")
    /\ doOut.kind \in {"neterr", "redirecterr", "headers"}
    /\ inflight' = [inflight EXCEPT ![id] = postDo(impl, cfg, isDebug, inflight[id], doOut)]
    /\ UNCHANGED <<impl, configDir, pc, settings, dir, osEnviron, isDebug, httpAddr, cfg, registered,
                   warnings>>

\* The body of the response of handler id was read, or reading it failed.
PostRead(id, readOut) ==
    /\ AtStep(id, "readwait")
    /\ readOut.kind \in {"readerr", "body"}
    /\ inflight' = [inflight EXCEPT ![id] = postRead(impl, cfg, isDebug, inflight[id], readOut)]
    /\ UNCHANGED <<impl, configDir, pc, settings, dir, osEnviron, isDebug, httpAddr, cfg, registered,
                   warnings>>

\* Handler id returns; the transport writes the result to its own client.
Reply(id) ==
    /\ AtStep(id, "done")
    /\ inflight' = [j \in DOMAIN inflight \ {id} |-> inflight[j]]
    /\ UNCHANGED <<impl, configDir, pc, settings, dir, osEnviron, isDebug, httpAddr, cfg, registered,
                   warnings>>

\* The handlers that have returned and whose result is yet to be written back.
Returned == {id \in DOMAIN inflight : inflight[id].step = "done"}

\* The tool call that has just returned: its inputs, result and effects.
last ==
    IF Returned = {} THEN NoCall
    ELSE LET call == inflight[Min(Returned)]
         IN  [tool |-> call.tool, args |-> call.args, requests |-> call.requests, log |-> call.log,
              token |-> call.token, result |-> call.result, cmdRuns |-> call.cmdRuns,
              herr |-> call.herr, hdr |-> call.hdr, ctx |-> call.ctx,
              called |-> TRUE, cmd |-> call.cmd, http |-> call.http]

(***************************** inputs ****************************************)
\* The outcomes of running the token command: exit 0 with some output, a
\* non-zero exit with some standard error, or a command that never started.
CmdOutcomes(outs, errs) ==
    [kind : {"ok"}, code : {"0"}, stderr : {<<>>}, stdout : outs]
    \cup [kind : {"exit"}, code : {"1"}, stderr : errs, stdout : {<<>>}]
    \cup {[kind |-> "nostart", code |-> "", stderr |-> <<>>, stdout |-> <<>>]}

\* What Do returns: the status line and headers of the response it ends on
\* (the default client follows a 3xx that names a Location, so a 3xx comes
\* back only without one), a failure on the network, or a failure to follow
\* the redirects to an end (too many of them, a Location that is no URL).
\* The requests the client library derives while it follows a redirect are
\* its own; a call's requests hold the one the code built.
DoOutcomes(statuses) ==
    [kind : {"headers"}, body : {<<>>}, status : statuses] \cup {DoFailed, DoRedirectFailed}

\* What io.ReadAll returns: the body, or a failure to read it.
ReadOutcomes(bodies) ==
    [kind : {"body"}, body : bodies, status : {""}] \cup {ReadFailed}

\* One tools/call request at a time, served step by step: the arguments and
\* the inbound Authorization header come with the request, the outcome of the
\* token command, of Do and of ReadAll when the handler has waited for it.
Handle(argsets, hdrs, cmds, statuses, bodies) ==
    \/ \E tcfg \in registered, args \in argsets, hdr \in hdrs : Accept(1, tcfg, args, hdr)
    \/ GatherStep(1)
    \/ \E order \in Orders(DOMAIN cfg.Env) : TokenStart(1, order)
    \/ \E cmdOut \in cmds : TokenDone(1, cmdOut)
    \/ PostSend(1)
    \/ \E doOut \in DoOutcomes(statuses) : PostDo(1, doOut)
    \/ \E readOut \in ReadOutcomes(bodies) : PostRead(1, readOut)
    \/ Reply(1)

\* Argument mappings over the given names, every present name bound to a value.
ArgMaps(names, values) == UNION {[S -> values] : S \in SUBSET names}

Impls == {"forge", "main"}

Addrs == {"", "8080"}

GoodURL == "https://api.example/graphql"

FOO == <<"F", "O", "O">>

NoCommand == ForgeConfig(GoodURL, "", <<>>, FALSE)

GhCommand == ForgeConfig(GoodURL, "gh auth token", (FOO :> <<"b", "a", "r">>), TRUE)

Environ == <<EnvEntry(FOO, <<"o", "l", "d">>), EnvEntry(FOO \o <<"B", "A", "R">>, <<"k">>)>>

DataBody ==
    <<"{", "\"data\"", ":", "{", "\"user\"", ":", "{", "\"id\"", ":", "\"1\"", "}", "}", "}">>

ErrorsBody ==
    <<"{", "\"errors\"", ":", "[", "{", "\"message\"", ":", "\"boom\"", "}", "]", "}">>

HtmlBody == <<"<html>", "Bad Gateway", "</html>">>

OutChars == {"s", " ", "\n"}

\* --- Spec: the argument mappings in full, over the whole example directory
ArgNames == {"id", "n", "org", "zz"}

ArgValues == {<<"v">>}

Args ==
    {a \in ArgMaps(ArgNames, ArgValues \cup {Null}) :
        \A k \in DOMAIN a \cap {"id", "org", "zz"} : a[k] # Null}

Init == InitWith(Impls, {ToolFiles}, {NoCommand, GhCommand}, {Environ}, BOOLEAN, Addrs)

Call ==
    Handle(Args,
           {<<>>},
           [kind : {"ok"}, code : {"0"}, stderr : {<<>>}, stdout : {<<"s">>}]
               \cup [kind : {"exit"}, code : {"1"}, stderr : {<<"s">>}, stdout : {<<>>}],
           {"200"}, {DataBody})

Next == LoadForgeConfig \/ RegisterTools \/ Serve \/ ServeEnds \/ Call

Spec == Init /\ [][Next]_vars

\* --- SpecReg: every configuration directory
InitReg == InitWith(Impls, SUBSET ToolFiles, {NoCommand, GhCommand}, {Environ}, {FALSE}, Addrs)

CallReg ==
    Handle({<<>>, [k \in ArgNames |-> <<"v">>]}, {<<>>, <<"Bearer ", "t">>},
           CmdOutcomes({<<"s">>}, {<<"s">>}), {"200"}, {DataBody})

NextReg == LoadForgeConfig \/ RegisterTools \/ Serve \/ ServeEnds \/ CallReg

SpecReg == InitReg /\ [][NextReg]_vars

\* --- SpecToken: every output of the token command, every inbound credential
InitToken == InitWith(Impls, {{"a_ping.yaml"}}, {NoCommand, GhCommand}, {Environ}, BOOLEAN, Addrs)

Outputs == SeqsUpTo(OutChars, MaxOutLen)

TokenCmds == CmdOutcomes(Outputs, Outputs)

CallToken ==
    Handle({<<>>}, {<<>>, <<"t">>, <<"Bearer ", "t">>}, TokenCmds, {"200"}, {DataBody})

NextToken == LoadForgeConfig \/ RegisterTools \/ Serve \/ ServeEnds \/ CallToken

SpecToken == InitToken /\ [][NextToken]_vars

\* --- SpecResp: every answer of the GraphQL endpoint
InitResp == InitWith(Impls, {{"a_ping.yaml", "d_user.yaml"}}, {NoCommand, GhCommand}, {Environ}, BOOLEAN, Addrs)

CallResp ==
    Handle({<<>>, [k \in ArgNames |-> <<"v">>]}, {<<>>},
           CmdOutcomes({<<"s">>, <<"s", "\n", "s">>}, {<<"s">>}),
           {"200", "404", "500"}, {DataBody, ErrorsBody, HtmlBody, <<>>})

NextResp == LoadForgeConfig \/ RegisterTools \/ Serve \/ ServeEnds \/ CallResp

SpecResp == InitResp /\ [][NextResp]_vars

\* --- SpecEnv: every process environment and every override mapping
EnvKeys == {<<"F">>, <<"F", "B">>, <<"G">>}

OverrideKeys == {<<"F">>, <<"F", "B">>, <<"F", "=", "B">>}

BaseEntries == {EnvEntry(k, v) : k \in EnvKeys, v \in {<<"o">>}} \cup {EnvEntry(<<"F">>, <<"B", "=", "o">>)}

EnvConfigs ==
    {ForgeConfig(GoodURL, "gh auth token", env, pass) :
        env \in UNION {[S -> {<<"x">>}] : S \in SUBSET OverrideKeys}, pass \in BOOLEAN}

BaseEnvirons == SeqsUpTo(BaseEntries, MaxEnvLen)

InitEnv == InitWith(Impls, {{"a_ping.yaml"}}, EnvConfigs, BaseEnvirons, {FALSE}, {""})

CallEnv ==
    Handle({<<>>}, {<<>>}, CmdOutcomes({<<"s">>}, {<<"s">>}), {"200"}, {DataBody})

NextEnv == LoadForgeConfig \/ RegisterTools \/ Serve \/ ServeEnds \/ CallEnv

SpecEnv == InitEnv /\ [][NextEnv]_vars

\* --- SpecURL: every kind of endpoint URL the settings can hold
URLs == GoodURLs \cup UnparsableURLs \cup UnsupportedSchemeURLs \cup NoHostURLs

URLConfigs ==
    {ForgeConfig(url, cmd, <<>>, FALSE) : url \in URLs, cmd \in {"", "gh auth token"}}

InitURL == InitWith(Impls, {{"a_ping.yaml", "d_user.yaml"}}, URLConfigs, {Environ}, BOOLEAN, Addrs)

CallURL ==
    Handle({<<>>, [k \in ArgNames |-> <<"v">>]}, {<<>>, <<"Bearer ", "t">>},
           CmdOutcomes({<<"s">>, <<"s", "\n", "s">>}, {<<"s">>}), {"200", "302", "500"},
           {DataBody, <<>>})

NextURL == LoadForgeConfig \/ RegisterTools \/ Serve \/ ServeEnds \/ CallURL

SpecURL == InitURL /\ [][NextURL]_vars

\* --- SpecConc: handlers in flight at the same time
InitConc == InitWith(Impls, {{"a_ping.yaml", "d_user.yaml"}}, {NoCommand, GhCommand}, {Environ}, {FALSE}, Addrs)

ConcCmds ==
    [kind : {"ok"}, code : {"0"}, stderr : {<<>>}, stdout : {<<"s">>, <<"r">>}]
    \cup [kind : {"exit"}, code : {"1"}, stderr : {<<"s">>}, stdout : {<<>>}]

\* The inbound Authorization headers: none and two different ones where the
\* header is what the handler forwards, none and one where a token command is.
ConcHeaders ==
    IF cfg.TokenCommand = "" THEN {<<>>, <<"A">>, <<"B">>} ELSE {<<>>, <<"A">>}

CallConc ==
    \/ \E id \in 1..MaxInFlight, tcfg \in registered, hdr \in ConcHeaders :
           Accept(id, tcfg, <<>>, hdr)
    \/ \E id \in 1..MaxInFlight : GatherStep(id)
    \/ \E id \in 1..MaxInFlight, order \in Orders(DOMAIN cfg.Env) : TokenStart(id, order)
    \/ \E id \in 1..MaxInFlight, cmdOut \in ConcCmds : TokenDone(id, cmdOut)
    \/ \E id \in 1..MaxInFlight : PostSend(id)
    \/ \E id \in 1..MaxInFlight,
          doOut \in DoOutcomes({"200"}) \ {DoRedirectFailed} :
           PostDo(id, doOut)
    \/ \E id \in 1..MaxInFlight,
          readOut \in ReadOutcomes({DataBody}) :
           PostRead(id, readOut)
    \/ \E id \in 1..MaxInFlight : Reply(id)

NextConc == LoadForgeConfig \/ RegisterTools \/ Serve \/ ServeEnds \/ CallConc

SpecConc == InitConc /\ [][NextConc]_vars

(***************************** properties ************************************)
\* The positions of the required inputs a call's arguments lack.
MissingRequired(tcfg, args) ==
    {i \in 1..Len(tcfg.inputs) :
        tcfg.inputs[i].required /\ tcfg.inputs[i].name \notin DOMAIN args}

DeclaredNames(tcfg) == {tcfg.inputs[i].name : i \in 1..Len(tcfg.inputs)}

Range(f) == {f[x] : x \in DOMAIN f}

\* C1: a call that omits a required input returns an error result whose
\* text names the first missing input in declared order, and in that call the
\* token command is not run and no GraphQL request is issued.
C1_MissingRequiredArgument ==
    (last.called /\ MissingRequired(last.tool, last.args) # {}) =>
        LET first == last.tool.inputs[Min(MissingRequired(last.tool, last.args))]
        IN  /\ last.result = [text |-> <<"missing required argument: ", first.name>>,
                              isError |-> TRUE]
            /\ last.cmdRuns = <<>>
            /\ last.requests = <<>>

\* C1 witness: a call lacking two required inputs of a tool whose server has a
\* token command configured.
C1_Witness ==
    /\ last.called
    /\ cfg.TokenCommand # ""
    /\ Cardinality(MissingRequired(last.tool, last.args)) = 2
    /\ last.result.isError

\* The parsable tool files of the directory that declare an input of
\* unsupported type.
BadTypeFiles ==
    {f \in dir : /\ FileContent(f).parses
                 /\ \E i \in 1..Len(FileContent(f).tool.inputs) :
                        FileContent(f).tool.inputs[i].type \notin SupportedTypes}

\* After RegisterTools no tool with an unsupported input type is registered,
\* under its own name or in part, and each offending type was warned about.
BadTypesExcluded ==
    pc \in {"registered", "serving", "stopped"} =>
        \A f \in BadTypeFiles :
            LET t == FileContent(f).tool
            IN  /\ \A r \in registered : r.name # t.name
                /\ \A i \in 1..Len(t.inputs) :
                       t.inputs[i].type \notin SupportedTypes =>
                           [kind |-> "unsupported type", what |-> t.inputs[i].type,
                            where |-> t.name] \in Range(warnings)

\* C2: a tool definition with an input of a type other than "string" or
\* "number", at any position, is absent from the registered set after
\* RegisterTools with a warning naming the type and the tool; the decision is
\* taken at registration: serving calls changes neither the set nor the warnings.
C2_UnsupportedTypeExcluded ==
    /\ []BadTypesExcluded
    /\ [][pc = "serving" => (registered' = registered /\ warnings' = warnings)]_vars

\* C2 witness: tools are being called while both a tool whose bad input comes
\* first and one whose bad input follows a valid one were left out.
C2_Witness ==
    /\ pc = "serving"
    /\ {"c_badlast.yaml", "e_badfirst.yaml", "d_user.yaml"} \subseteq dir
    /\ last.called
    /\ Cardinality(registered) = 1
    /\ Len(warnings) = 2

\* C3: when every required input is supplied, the variables of the outbound
\* payload are exactly the declared inputs: a supplied input carries the
\* supplied value, an optional input not supplied is null, no other argument is
\* forwarded, and the variables field is left out exactly when the tool
\* declares no inputs.
C3_VariablesExactlyDeclared ==
    (last.called /\ MissingRequired(last.tool, last.args) = {}) =>
        /\ last.cmd.kind \in {"ok", "none"} => Len(last.requests) = 1
        /\ \A i \in 1..Len(last.requests) :
               LET body == last.requests[i].body
               IN  /\ DOMAIN body.variables = DeclaredNames(last.tool)
                   /\ \A name \in DeclaredNames(last.tool) :
                          body.variables[name] =
                              IF name \in DOMAIN last.args THEN last.args[name] ELSE Null
                   /\ body.hasVariables <=> last.tool.inputs # <<>>

\* C3 witness: a request went out for a call that supplied the required
\* inputs and an undeclared argument but not the optional input.
C3_Witness ==
    /\ last.called
    /\ last.tool.name = "user"
    /\ DOMAIN last.args = {"id", "org", "zz"}
    /\ Len(last.requests) = 1
    /\ last.requests[1].body.variables["n"] = Null

Bearer == <<"Bearer ">>

\* C4: when the token command exits zero with output s, the outbound request
\* carries the Authorization header "Bearer " followed by s with leading and
\* trailing white space removed, for every s.
C4_BearerTrimmedOutput ==
    (last.called /\ last.cmd.kind = "ok") =>
        /\ Len(last.requests) = 1
        /\ last.requests[1].hasAuth
        /\ last.requests[1].auth = Bearer \o TrimSpace(last.cmd.stdout)

\* The handler reported a failed token command without reaching the client.
TokenFailureReported ==
    /\ last.result.isError
    /\ last.herr = "nil"
    /\ last.requests = <<>>

\* The step that serves a call whose token command exits non-zero leaves the
\* process serving.
TokenFailureKeepsServing ==
    [][(last' # last /\ last'.cmd.kind = "exit") => (pc = "serving" /\ pc' = "serving")]_vars

\* C5 as stated: when the token command exits non-zero the error result's
\* text includes the captured standard-error text, no GraphQL request is
\* issued and the process does not terminate.
C5_StderrIncluded ==
    /\ []((last.called /\ last.cmd.kind = "exit") =>
            /\ TokenFailureReported
            /\ Contains(last.result.text, last.cmd.stderr))
    /\ TokenFailureKeepsServing

\* C5 amended: when the token command exits non-zero the error result's text
\* includes the captured standard-error text with its leading and trailing
\* white space removed, no GraphQL request is issued and the process does not
\* terminate.
C5_TrimmedStderrIncluded ==
    /\ []((last.called /\ last.cmd.kind = "exit") =>
            /\ TokenFailureReported
            /\ Contains(last.result.text, TrimSpace(last.cmd.stderr))
            /\ TrimSpace(last.cmd.stderr) # <<>> =>
                   Contains(last.result.text, <<" Stderr: ">> \o TrimSpace(last.cmd.stderr)))
    /\ TokenFailureKeepsServing

\* C5 witness: a token command that failed with standard error text followed
\* by white space.
C5_Witness ==
    /\ last.called
    /\ last.cmd.kind = "exit"
    /\ last.cmd.stderr = <<"s", " ">>
    /\ last.result.isError
    /\ Len(last.cmdRuns) = 1

\* C6: with no token command configured and no credential in the call's
\* context, the resolved credential is empty and the outbound request carries
\* no Authorization header.
C6_NoCredentialNoHeader ==
    (last.called /\ cfg.TokenCommand = "" /\ ~last.ctx.hasAuth
        /\ MissingRequired(last.tool, last.args) = {}) =>
        /\ last.token = <<>>
        /\ Len(last.requests) = 1
        /\ ~last.requests[1].hasAuth

\* C6 witness: the HTTP transport served a call whose inbound request had no
\* Authorization header, and the GraphQL request went out.
C6_Witness ==
    /\ last.called
    /\ impl = "forge"
    /\ httpAddr # ""
    /\ cfg.TokenCommand = ""
    /\ last.hdr = <<>>
    /\ Len(last.requests) = 1

\* C7: whenever the HTTP exchange completes, the call's result is a
\* successful text result whose text is the response body unchanged, whatever
\* the status code and whatever the body holds.
C7_ResponseVerbatim ==
    (last.called /\ last.http.kind = "response") =>
        last.result = [text |-> last.http.body, isError |-> FALSE]

\* C7 witness: a 500 response carrying a GraphQL errors array came back as a
\* successful result.
C7_Witness ==
    /\ last.called
    /\ last.http.kind = "response"
    /\ last.http.status = "500"
    /\ last.http.body = ErrorsBody
    /\ ~last.result.isError

\* The environment the token command of the latest call ran with.
CmdEnv == last.cmdRuns[1].env

\* The environment the overlay starts from.
BaseEnv == IF cfg.EnvPassthrough THEN osEnviron ELSE <<>>

\* The key of an environment entry: what precedes its first "=".
KeyOf(e) ==
    LET eq == {i \in 1..Len(e) : e[i] = "="}
    IN  IF eq = {} THEN e ELSE SubSeq(e, 1, Min(eq) - 1)

\* How many entries of env equal e.
Count(env, e) == Cardinality({i \in 1..Len(env) : env[i] = e})

\* Each override key heads exactly one entry, K=<override value>; every base
\* entry of another key is kept as often as the base holds it; and nothing
\* else is in the environment.
EnvOverlaid ==
    /\ \A k \in DOMAIN cfg.Env :
           LET at == {i \in 1..Len(CmdEnv) : HasPrefix(CmdEnv[i], k \o <<"=">>)}
           IN  /\ Cardinality(at) = 1
               /\ \A i \in at : CmdEnv[i] = EnvEntry(k, cfg.Env[k])
    /\ \A e \in Range(BaseEnv) :
           KeyOf(e) \notin DOMAIN cfg.Env => Count(CmdEnv, e) = Count(BaseEnv, e)
    /\ \A i \in 1..Len(CmdEnv) :
           \/ CmdEnv[i] \in Range(BaseEnv)
           \/ \E k \in DOMAIN cfg.Env : CmdEnv[i] = EnvEntry(k, cfg.Env[k])

\* C8 as stated: for every base environment and every override mapping, in
\* any order of processing, the token command's environment holds each
\* override key exactly once with the override value and every base entry of
\* another key (also one that merely starts with an override key) unchanged.
C8_EnvOverlay ==
    (last.called /\ last.cmdRuns # <<>>) => EnvOverlaid

\* C8 amended: the same, for every override mapping none of whose keys
\* contains "=".
C8_EnvOverlayPlainKeys ==
    (last.called /\ last.cmdRuns # <<>> /\ \A k \in DOMAIN cfg.Env : "=" \notin Range(k)) =>
        EnvOverlaid

\* C8 witness: the process environment is passed through with F and FB set,
\* and F and FB are both overridden.
C8_Witness ==
    /\ last.called
    /\ last.cmdRuns # <<>>
    /\ cfg.EnvPassthrough
    /\ DOMAIN cfg.Env = {<<"F">>, <<"F", "B">>}
    /\ osEnviron = <<EnvEntry(<<"F", "B">>, <<"o">>), EnvEntry(<<"F">>, <<"o">>)>>
    /\ Len(CmdEnv) = 2

\* C9: the outbound Authorization header always has the form "Bearer "
\* followed by the credential, the prefix neither missing nor doubled,
\* whichever path the credential came from.
C9_BearerPrefixOnce ==
    last.called =>
        \A i \in 1..Len(last.requests) :
            last.requests[i].hasAuth =>
                /\ HasPrefix(last.requests[i].auth, Bearer)
                /\ ~HasPrefix(Tail(last.requests[i].auth), Bearer)

\* The secret the latest call acquired: the token command's output or the
\* credential of its context.
Credential ==
    IF last.cmd.kind = "ok" THEN TrimSpace(last.cmd.stdout) ELSE CtxAuthValue(last.ctx)

\* C10: with debug logging on, no log entry holds the plaintext of a
\* credential.
C10_NoPlaintextCredentialLogged ==
    (last.called /\ isDebug /\ Credential # <<>>) =>
        \A i \in 1..Len(last.log) : ~Contains(last.log[i].text, Credential)

\* The handler of the latest call reached the client: no required argument
\* was missing, and the token command, if one is configured, exited zero.
ClientCalled ==
    /\ last.called
    /\ MissingRequired(last.tool, last.args) = {}
    /\ cfg.TokenCommand # "" => last.cmd.kind = "ok"

\* The client of the latest call was handed a credential that net/http
\* refuses to write as a header value.
CredentialRefused == ClientCalled /\ ~ValidHeaderFieldValue(last.token)

\* The latest call failed at the call level: a required argument was missing,
\* the token command exited non-zero or did not start, or the HTTP exchange
\* failed, refused before it began, broken on the network or lost in
\* redirects.
CallLevelFailure ==
    /\ last.called
    /\ \/ MissingRequired(last.tool, last.args) # {}
       \/ last.cmd.kind \in {"exit", "nostart"}
       \/ CredentialRefused
       \/ last.http.kind \in {"neterr", "redirecterr", "readerr"}

\* The inputs the handler of the latest call consumed were all good: no
\* required argument missing, and the token command, if one is configured,
\* exited zero with a credential that can be sent.
CallInputsGood == ClientCalled /\ ~CredentialRefused

\* Every call returns a nil handler error, and a call-level failure comes back
\* as an error result.
FailureIsErrorResult ==
    /\ last.called => (last.herr = "nil" /\ pc \in {"serving", "stopped"})
    /\ CallLevelFailure => last.result.isError

\* C11: a missing required argument, a token command that fails or cannot be
\* started and a failed HTTP exchange (a credential refused as a header value
\* included) are each reported as an error result of
\* that call with a nil handler error; every step of a failing call, its
\* return included, leaves the process serving and the settings, the
\* registered tools and the process environment as they were; and every call
\* with good inputs, so also the one served right after a failed call, reaches
\* the endpoint and returns its response as a successful result.
C11_CallLevelFailureScoped ==
    /\ []FailureIsErrorResult
    /\ [][((CallLevelFailure \/ CallLevelFailure') /\ inflight' # inflight) =>
             /\ pc = "serving" /\ pc' = "serving"
             /\ registered' = registered /\ cfg' = cfg /\ osEnviron' = osEnviron
             /\ settings' = settings]_vars
    /\ [](CallInputsGood =>
             /\ Len(last.requests) = 1
             /\ last.http.kind = "response" =>
                    last.result = [text |-> last.http.body, isError |-> FALSE])

\* C11 witness: the token command could not be started, the call came back as
\* an error result, and both tools are still registered and being served.
C11_Witness ==
    /\ last.called
    /\ last.cmd.kind = "nostart"
    /\ last.result.isError
    /\ last.herr = "nil"
    /\ pc = "serving"
    /\ Cardinality(registered) = 2

\* The client handed an error back to the handler of the latest call.
ClientError ==
    /\ last.called
    /\ last.result.isError
    /\ HasPrefix(last.result.text, <<"GraphQL execution failed">>)

\* The HTTP exchange of the latest call failed at the network level.
NetworkFailure == last.http.kind \in {"neterr", "readerr"}

\* C12 as stated: the client returns an error only on a network-level
\* failure, for every url, query, variable mapping and credential.
C12_ErrorOnlyOnNetworkFailure ==
    ClientError => NetworkFailure

\* The HTTP client of the latest call gave up on the redirects the endpoint
\* answered with.
RedirectFailure == last.http.kind = "redirecterr"

\* The request of the latest call cannot be made: the url does not parse, its
\* scheme is not http or https, it names no host, or the credential is no
\* header value.
RequestRefused ==
    \/ cfg.URL \in UnparsableURLs \cup UnsupportedSchemeURLs \cup NoHostURLs
    \/ CredentialRefused

\* C12 amended: the client returns an error exactly when the request cannot
\* be made (the url does not parse, its scheme is not http or https, it names
\* no host, or the credential holds a control character and so is no header
\* value), when the exchange fails at the network level (connection, body
\* read) or when the HTTP client cannot follow the endpoint's redirects to an
\* end; a request that cannot be made is never sent, and the response the
\* HTTP client ends on, of any status with any body, is never a client-side
\* error.
C12_ErrorOnlyOnBadURLOrNetworkFailure ==
    ClientCalled =>
        /\ ClientError <=> (RequestRefused \/ NetworkFailure \/ RedirectFailure)
        /\ RequestRefused => (last.requests = <<>> /\ last.http.kind = "none")
        /\ ~RequestRefused => Len(last.requests) = 1
        /\ last.http.kind = "response" => ~last.result.isError

\* C12 witness: the settings hold an http URL without a host, the credential
\* is good, and the call came back with the client's error without any
\* request having gone out.
C12_Witness ==
    /\ ClientCalled
    /\ cfg.URL = "http://"
    /\ ~CredentialRefused
    /\ ClientError
    /\ last.requests = <<>>
    /\ last.http.kind = "none"

\* The tool files of the directory that load and declare only supported types.
GoodFiles ==
    {f \in dir \ {"forge.yaml"} :
        /\ FileContent(f).parses
        /\ \A i \in 1..Len(FileContent(f).tool.inputs) :
               FileContent(f).tool.inputs[i].type \in SupportedTypes}

\* The registered set is exactly the tools of the good files, each file that
\* does not load was warned about, and what forge.yaml would yield as a tool
\* is not registered.
RegisteredExactly ==
    pc \in {"registered", "serving", "stopped"} =>
        /\ registered = {FileContent(f).tool : f \in GoodFiles}
        /\ \A f \in dir : ~FileContent(f).parses =>
               [kind |-> "skipping", what |-> f, where |-> f] \in Range(warnings)
        /\ FileContent("forge.yaml").tool \notin registered

\* C13: after RegisterTools over a directory whose listing succeeds, the
\* registered set is exactly the tools of the *.yaml files other than
\* forge.yaml that load and declare only supported input types; a file that
\* cannot be loaded is skipped with a warning without keeping any file before
\* or after it in the listing from being registered; RegisterTools itself
\* succeeds; and forge.yaml is never registered as a tool.
C13_RegisteredExactlyGoodFiles ==
    /\ []RegisteredExactly
    /\ [][(pc = "configured" /\ ~GlobFails(resolveConfigDir(impl, configDir).path)) =>
             pc' = "registered"]_vars

\* C13 witness: the directory holds an unloadable file between two good ones
\* and two files with unsupported types; both good tools are registered and
\* three warnings were written.
C13_Witness ==
    /\ pc = "registered"
    /\ dir = ToolFiles
    /\ Cardinality(registered) = 2
    /\ \E r \in registered : r.name = "user"
    /\ [kind |-> "skipping", what |-> "b_broken.yaml", where |-> "b_broken.yaml"] \in Range(warnings)
    /\ Len(warnings) = 3

\* The directory the listing is made over.
ConfigPath == resolveConfigDir(impl, configDir).path

\* Startup cannot succeed: no settings can be loaded, or the directory cannot
\* be listed.
StartupDoomed ==
    \/ settings.status \in {"missing", "malformed"}
    \/ configDir \in {"conf["}

\* A doomed startup never gets past its failing step: nothing is registered,
\* no transport is started and no call is served.  A startup that got further
\* loaded the settings first and registered before it served.
NoPartialStartup ==
    /\ settings.status \in {"missing", "malformed"} => pc \in {"start", "exited"}
    /\ StartupDoomed =>
           /\ pc \in {"start", "configured", "exited"}
           /\ registered = {}
           /\ warnings = <<>>
           /\ ~last.called
           /\ inflight = <<>>
    /\ pc \in {"configured", "registered", "serving", "stopped"} =>
           (settings.status = "ok" /\ cfg = settings.content)
    /\ (registered # {} \/ warnings # <<>>) => pc \notin {"start", "configured"}
    /\ (last.called \/ inflight # <<>>) => pc \in {"serving", "stopped"}

\* C14: when forge.yaml is missing or unparsable, or the directory cannot be
\* listed, startup ends at that step in a fatal error: no tool is registered,
\* no transport is started and no call is ever served, and nothing happens
\* after the exit.  Settings are loaded before any tool is registered, and the
\* registered set is complete before serving begins.
C14_StartupFatalNoPartialStartup ==
    /\ []NoPartialStartup
    /\ [][(StartupDoomed /\ pc' # pc) => pc' \in {"configured", "exited"}]_vars
    /\ [][(StartupDoomed /\ pc = "configured") => pc' = "exited"]_vars
    /\ [][(pc \in {"exited", "stopped"}) => (vars' = vars)]_vars
    /\ [][pc' = "serving" => (registered' = registered /\ cfg' = cfg)]_vars
    /\ [][inflight' # inflight => (pc = "serving" /\ pc' = "serving")]_vars

\* C14 witness: the settings were loaded, listing the directory of five tool
\* files failed, and startup ended with nothing registered.
C14_Witness ==
    /\ pc = "exited"
    /\ settings.status = "ok"
    /\ cfg = settings.content
    /\ GlobFails(ConfigPath)
    /\ dir = ToolFiles
    /\ registered = {}
    /\ ~last.called

\* The Authorization value an inbound header should leave on the handler's
\* own outbound request: the header itself, or none.
OwnCredentialOnly(call) ==
    /\ call.ctx = HTTPContextFunc(call.hdr)
    /\ (call.step \in {"post", "dowait", "readwait", "done"} /\ MissingRequired(call.tool, call.args) = {}) =>
           call.token = call.hdr
    /\ (call.step = "done" /\ MissingRequired(call.tool, call.args) = {}) =>
           Len(call.requests) = 1
    /\ \A i \in 1..Len(call.requests) :
           /\ call.requests[i].hasAuth <=> call.hdr # <<>>
           /\ call.requests[i].auth = call.hdr

\* C15: under the HTTP transport of internal/forge with no token command,
\* whatever the interleaving of the handlers in flight, each handler's
\* outbound request carries the Authorization value of its own inbound
\* request, or no Authorization header if that request had none, and never
\* the value of another request; the credential is held in the handler's own
\* context only.
C15_OwnCredentialPerRequest ==
    (impl = "forge" /\ httpAddr # "" /\ cfg.TokenCommand = "") =>
        \A id \in DOMAIN inflight : OwnCredentialOnly(inflight[id])

\* C15 witness: two handlers in flight at once, called with different
\* Authorization headers, have both posted their requests, and a third
\* credential is not involved.
C15_Witness ==
    /\ impl = "forge"
    /\ httpAddr # ""
    /\ cfg.TokenCommand = ""
    /\ DOMAIN inflight = {1, 2}
    /\ inflight[1].hdr = <<"B">>
    /\ inflight[2].hdr = <<"A">>
    /\ inflight[1].step = "done"
    /\ inflight[2].step = "done"
    /\ Len(inflight[1].requests) = 1
    /\ Len(inflight[2].requests) = 1
    /\ inflight[1].requests[1].auth = <<"B">>
    /\ inflight[2].requests[1].auth = <<"A">>

\* What the handler yields when it runs alone on the inputs a finished handler
\* consumed, with the environment overrides ranged over in the given order.
AloneOn(call, order) ==
    IF impl = "forge"
    THEN makeHandler(cfg, call.tool, isDebug, call.args, call.ctx, osEnviron, order,
                     call.cmd, call.http)
    ELSE mainMakeHandler(cfg, call.tool, isDebug, call.args, call.ctx, osEnviron, order,
                         call.cmd, call.http)

\* A finished handler returned, ran and sent exactly what it would have had it
\* been the only call the server ever served.
IndependentOfOtherCalls ==
    \A id \in DOMAIN inflight :
        inflight[id].step = "done" =>
            \E order \in Orders(DOMAIN cfg.Env) :
                LET o == AloneOn(inflight[id], order)
                IN  /\ o.result = inflight[id].result
                    /\ o.herr = inflight[id].herr
                    /\ o.token = inflight[id].token
                    /\ o.cmdRuns = inflight[id].cmdRuns
                    /\ o.requests = inflight[id].requests

\* C16: no step of any handler, whatever the interleaving and whether the
\* call succeeds or fails, changes the loaded settings (URL, token command,
\* environment overrides, passthrough flag), the registered tool definitions
\* or the process environment; and the result, the command run and the request
\* of a call are those the handler yields on that call's arguments, context
\* credential and external responses alone.
C16_NoSharedStateWritten ==
    /\ []IndependentOfOtherCalls
    /\ [][pc = "serving" =>
             /\ cfg' = cfg
             /\ registered' = registered
             /\ osEnviron' = osEnviron
             /\ settings' = settings
             /\ isDebug' = isDebug]_vars

\* C16 witness: with environment overrides and passthrough configured, one
\* handler in flight failed on its token command while the other ran the
\* command with the overlaid environment and posted its request; the process
\* environment still holds the old value.
C16_Witness ==
    /\ cfg = GhCommand
    /\ osEnviron = Environ
    /\ DOMAIN inflight = {1, 2}
    /\ inflight[1].step = "done"
    /\ inflight[1].cmd.kind = "exit"
    /\ inflight[1].result.isError
    /\ inflight[2].step = "done"
    /\ Len(inflight[2].requests) = 1
    /\ Len(inflight[2].cmdRuns) = 1
    /\ inflight[2].cmdRuns[1].env # osEnviron

\* With a token command configured, the call ran it once and what went out
\* comes from its output, not from the context or the inbound header.
CommandIsTheSource ==
    /\ Len(last.cmdRuns) = 1
    /\ last.cmdRuns[1].command = cfg.TokenCommand
    /\ last.cmd.kind # "none"
    /\ (last.cmd.kind = "ok" /\ ValidHeaderFieldValue(TrimSpace(last.cmd.stdout))) =>
           Len(last.requests) = 1
    /\ \A i \in 1..Len(last.requests) :
           last.requests[i].hasAuth =>
               /\ last.requests[i].auth = Bearer \o TrimSpace(last.cmd.stdout)
               /\ last.ctx.hasAuth => last.requests[i].auth # last.ctx.auth
               /\ last.hdr # <<>> => last.requests[i].auth # last.hdr

\* With no token command, nothing was executed and what went out is the
\* credential of the call's context as it is, or no header without one.
ContextIsTheSource ==
    /\ last.cmdRuns = <<>>
    /\ last.cmd.kind = "none"
    /\ Len(last.requests) = 1
    /\ last.requests[1].hasAuth <=> last.ctx.hasAuth
    /\ last.requests[1].auth = CtxAuthValue(last.ctx)

\* C17: whether a token command is configured alone decides where the
\* credential comes from.  With a command, every call that passes argument
\* validation executes it once, its own run and not an earlier call's token,
\* and a credential in the call's context is never sent to the endpoint; with
\* no command, no external command is executed and the outbound Authorization
\* header is the context credential verbatim.
C17_CredentialSourceByTokenCommand ==
    (last.called /\ MissingRequired(last.tool, last.args) = {}) =>
        IF cfg.TokenCommand # "" THEN CommandIsTheSource ELSE ContextIsTheSource

\* C17 witness: a token command is configured, the call arrived over HTTP with
\* an Authorization header in its context, the command ran and its output, not
\* the inbound credential, went out.
C17_Witness ==
    /\ last.called
    /\ impl = "forge"
    /\ cfg.TokenCommand # ""
    /\ last.ctx = [hasAuth |-> TRUE, auth |-> <<"Bearer ", "t">>]
    /\ last.cmd.kind = "ok"
    /\ last.cmd.stdout = <<"s">>
    /\ Len(last.cmdRuns) = 1
    /\ Len(last.requests) = 1
    /\ last.requests[1].auth = <<"Bearer ", "s">>

====
